---- MODULE Spec2Model ----
(***************************************************************************)
(* Model of lambda_function.py: the arXiv -> S3 crawler.                   *)
(* One run of lambda_handler is a walk through fetch_feed, the generator   *)
(* iter_entries and, per yielded entry, download_and_upload.  Every        *)
(* external call (feed GET, head_object, PDF GET, upload_fileobj, sleep)   *)
(* is one step whose result is chosen among the results the service can    *)
(* give.  Runs follow one another on the same feed and the same store.     *)
(***************************************************************************)
EXTENDS Integers, Sequences, FiniteSets, TLC

\* ---------- bounds ----------------------------------------------------------
MaxFeedLen == 2
MaxRuns == 2

\* ---------- config (lambda_function.py 29-41) -------------------------------
PER_FILE_RETRY == 2

None == "<None>"

Prefixes == { <<>>, <<"p", "/">> }

\* ---------- strings as character sequences ---------------------------------
PdfExt == <<".", "p", "d", "f">>

PdfMarker == <<"p", "d", "f">>

LowerChar(c) ==
  CASE c = "A" -> "a"
    [] c = "P" -> "p"
    [] c = "D" -> "d"
    [] c = "F" -> "f"
    [] c = "T" -> "t"
    [] OTHER -> c

Lower(s) == [i \in 1..Len(s) |-> LowerChar(s[i])]

Contains(sub, s) ==
  \E i \in 1..(Len(s) - Len(sub) + 1) : SubSeq(s, i, i + Len(sub) - 1) = sub

SetMax(S) == CHOOSE m \in S : \A n \in S : n <= m

SetMin(S) == CHOOSE m \in S : \A n \in S : m <= n

\* str.split("/", 1)[-1]: the text after the first "/"
SplitFirst(s) ==
  LET slashes == {i \in 1..Len(s) : s[i] = "/"}
  IN IF slashes = {} THEN s ELSE SubSeq(s, SetMin(slashes) + 1, Len(s))

\* str.rsplit("/", 1)[-1]
RSplitLast(s) ==
  LET slashes == {i \in 1..Len(s) : s[i] = "/"}
  IN IF slashes = {} THEN s ELSE SubSeq(s, SetMax(slashes) + 1, Len(s))

\* ---------- the feed --------------------------------------------------------
IdA == <<"h", "/", "x", "/", "a">>
IdB == <<"h", "/", "x", "/", "b">>
IdC == <<"b">>

Link(t, h) == [title |-> t, href |-> h]

\* the entries a feed document is built from: the texts of its <id>
\* elements (none when the element is missing) and its <link> elements, in
\* document order
EntryPool ==
  { [ids |-> << IdA >>, links |-> << Link("pdf", "u1") >>],
    [ids |-> << IdB >>, links |-> << Link("alternate", "u2"), Link("pdf", "u2") >>],
    [ids |-> << IdA >>, links |-> << Link("pdf", "bad") >>],
    [ids |-> << IdB >>, links |-> << Link("alternate", "u1") >>],
    [ids |-> << IdC >>, links |-> << Link("pdf", ""), Link("pdf", "u1") >>],
    [ids |-> << >>,     links |-> << Link("pdf", "u1") >>],
    [ids |-> << >>,     links |-> << >>] }

Feeds == UNION { [1..n -> EntryPool] : n \in 0..MaxFeedLen }

\* findall in the reverse of document order
EntryAtReversed(f, n) == f[Len(f) + 1 - n]

\* iter_entries line 78: findall gives the entries in document order
EntryAt(f, n) == f[n]

\* iter_entries line 79: entry.find("atom:id") is the first <id> element,
\* or None, and None has no text
HasId(entry) == Len(entry.ids) > 0

\* iter_entries line 79
PaperId(entry) == RSplitLast(entry.ids[1])

\* iter_entries lines 81-85: href of the first link titled "pdf"
FirstPdfHref(links) ==
  LET idx == {i \in 1..Len(links) : links[i].title = "pdf"}
  IN IF idx = {} THEN None ELSE links[SetMin(idx)].href

\* iter_entries line 86: "if not pdf_url"
NoPdfUrl(url) == url = None \/ url = ""

Resolved(entry) == HasId(entry) /\ ~NoPdfUrl(FirstPdfHref(entry.links))

\* download_and_upload line 93
KeyOf(pfx, paper_id) == pfx \o paper_id \o PdfExt

PaperIds == { PaperId(e) : e \in {x \in EntryPool : HasId(x)} }

Keys(pfx) == { KeyOf(pfx, p) : p \in PaperIds }

\* ---------- what the services can answer ------------------------------------
\* feed endpoint: a network error, or a status with a body that parses or not
\* (an error status can come with a well-formed error document)
FeedAnswers ==
  { [kind |-> "neterr", status |-> 0,   wellformed |-> FALSE],
    [kind |-> "http",   status |-> 500, wellformed |-> FALSE],
    [kind |-> "http",   status |-> 500, wellformed |-> TRUE],
    [kind |-> "http",   status |-> 200, wellformed |-> FALSE],
    [kind |-> "http",   status |-> 200, wellformed |-> TRUE] }

CTypes ==
  { <<"a", "/", "p", "d", "f">>,
    <<"A", "/", "P", "D", "F">>,
    <<"t", "/", "h", "t", "m", "l">>,
    << >> }

NoResp == [status |-> 0, ctype |-> << >>]

PdfAnswers ==
  { [status |-> 200, ctype |-> c] : c \in CTypes }
    \cup { [status |-> s, ctype |-> <<"t", "/", "h", "t", "m", "l">>] : s \in {404, 500} }

\* head_object: "200", ClientError "404", ClientError with another code,
\* or an exception that is no ClientError
HeadErrors == {"403", "conn"}

\* requests' raise_for_status
RaiseForStatus(status) == status >= 400 /\ status < 600

\* fetch_feed without line 72
FetchFeedRaisesNoStatusCheck(ans) ==
  \/ ans.kind = "neterr"
  \/ ~ans.wellformed

\* fetch_feed lines 71-73: raises unless the GET answers, with a success
\* status and a body ET.fromstring parses
FetchFeedRaises(ans) ==
  \/ ans.kind = "neterr"
  \/ RaiseForStatus(ans.status)
  \/ ~ans.wellformed

\* already_in_s3 answering False whatever head_object finds
already_in_s3_AlwaysAbsent(headAns) ==
  IF headAns \in {"200", "404"} THEN "False" ELSE "raise"

\* already_in_s3 with its two answers exchanged
already_in_s3_Inverted(headAns) ==
  IF headAns = "200" THEN "False"
  ELSE IF headAns = "404" THEN "True"
  ELSE "raise"

\* already_in_s3 taking every error of head_object for "not found"
already_in_s3_ErrorIsAbsent(headAns) ==
  IF headAns = "200" THEN "True" ELSE "False"

\* already_in_s3 lines 50-58
already_in_s3(headAns) ==
  IF headAns = "200" THEN "True"
  ELSE IF headAns = "404" THEN "False"
  ELSE "raise"

\* download_and_upload without the content-type check
IsPdfCTypeUnchecked(ctype) == TRUE

\* download_and_upload lines 102-104
IsPdfCType(ctype) == Contains(PdfMarker, Lower(ctype))

\* the give-up test one attempt late
LastAttemptOffByOne(a) == a = PER_FILE_RETRY + 1

\* download_and_upload line 111
LastAttempt(a) == a = PER_FILE_RETRY

\* download_and_upload line 113
Backoff(a) == 2 * a

\* s3.upload_fileobj: a whole-object write, replacing what is at the key
S3Put(st, key, body) ==
  {o \in st : o.key # key} \cup {[key |-> key, body |-> body]}

StoreKeys(st) == {o.key : o \in st}


\* download_and_upload without the early return of lines 94-96
AfterCheckNoSkip(inS3) ==
  IF inS3 = "raise" THEN "raise" ELSE "get"

\* download_and_upload lines 94-96 and the loop entry at line 98
AfterCheck(inS3) ==
  IF inS3 = "True" THEN "skipped"
  ELSE IF inS3 = "False" THEN "get"
  ELSE "raise"

\* ---------- state -----------------------------------------------------------
VARIABLES
  feed,       \* the document the search endpoint serves (the same in every run)
  S3_PREFIX,  \* the key prefix inside the bucket
  store,      \* the bucket: a set of [key, body]
  run,        \* number of the current run of lambda_handler
  prev,       \* how the previous run ended
  pc,         \* where the current run stands
  feedAns,    \* what the feed endpoint answered in this run
  feedReqs,   \* feed requests issued in this run
  pos,        \* position of iter_entries in the feed
  ok, skip, fail,
  cur,        \* (paper_id, pdf_url) being handled by download_and_upload
  headAns,    \* answer of head_object for cur
  wasPresent, \* whether cur's key was in the store when head_object ran
  attempt,    \* the loop variable of download_and_upload
  resp,       \* response of the PDF GET of this attempt
  checks,     \* head_object calls issued for cur
  gets,       \* requests.get calls made for cur's link
  puts,       \* upload_fileobj calls issued for cur
  ctFails,    \* attempts of cur that ended on the content-type check
  slept,      \* the sleeps made for cur, in order
  outcome,    \* per feed position: none, dropped, ok, skipped, failed
  writes,     \* successful object writes of this run, as a set of [key, pos]
  storeOps,   \* head_object, PDF GET and upload calls issued in this run
  other       \* a second invocation of lambda_handler, overlapping this one

vars == << feed, S3_PREFIX, store, run, prev, pc, feedAns, feedReqs, pos, ok, skip,
           fail, cur, headAns, wasPresent, attempt, resp, checks, gets, puts,
           ctFails, slept, outcome, writes, storeOps, other >>

NoCur == [id |-> << >>, url |-> None]

NoFeedAns == [kind |-> "none", status |-> 0, wellformed |-> FALSE]

NoPrev == [end |-> "none", ok |-> 0, skipped |-> 0, failed |-> 0]

InitialStores(pfx) ==
  { {[key |-> k, body |-> "old"] : k \in K} : K \in SUBSET Keys(pfx) }

entryVars == << cur, headAns, wasPresent, attempt, resp, checks, gets, puts, ctFails,
               slept >>

counters == << ok, skip, fail >>

\* a second invocation that has not been started
OtherIdle == [pc |-> "idle", pos |-> 0, attempt |-> 0, wrote |-> {}]

config == << feed, S3_PREFIX, run, prev, other >>

\* the state in which lambda_handler is entered (line 118)
RunStart ==
  /\ pc = "start"
  /\ feedAns = NoFeedAns
  /\ feedReqs = 0
  /\ pos = 0
  /\ ok = 0 /\ skip = 0 /\ fail = 0
  /\ cur = NoCur
  /\ headAns = "none"
  /\ wasPresent = FALSE
  /\ attempt = 0
  /\ resp = NoResp
  /\ checks = 0 /\ gets = 0 /\ puts = 0 /\ ctFails = 0
  /\ slept = << >>
  /\ outcome = [i \in 1..Len(feed) |-> "none"]
  /\ writes = {}
  /\ storeOps = 0

Init ==
  /\ feed \in Feeds
  /\ S3_PREFIX \in Prefixes
  /\ store \in InitialStores(S3_PREFIX)
  /\ run = 1
  /\ prev = NoPrev
  /\ other = OtherIdle
  /\ RunStart

\* ---------- lambda_handler --------------------------------------------------
\* the handler counting an exception of download_and_upload as a skip
OutcomeOkOnly(status) ==
  IF status = "ok" THEN "ok" ELSE "skipped"

\* the handler counting every returned status as "ok"
OutcomeSkipAsOk(status) ==
  IF status = "raise" THEN "failed" ELSE "ok"

\* lines 123-130: the status returned by download_and_upload, or its exception
Outcome(status) ==
  IF status = "raise" THEN "failed"
  ELSE IF status = "ok" THEN "ok"
  ELSE "skipped"

\* lines 123-130, then back to the generator
EntryDone(status) ==
  /\ ok' = IF Outcome(status) = "ok" THEN ok + 1 ELSE ok
  /\ skip' = IF Outcome(status) = "skipped" THEN skip + 1 ELSE skip
  /\ fail' = IF Outcome(status) = "failed" THEN fail + 1 ELSE fail
  /\ outcome' = [outcome EXCEPT ![pos] = Outcome(status)]
  /\ pc' = "iter"

\* lines 109-113: an attempt raised
AttemptFailed ==
  IF LastAttempt(attempt)
  THEN EntryDone("raise")
  ELSE /\ pc' = "sleep"
       /\ UNCHANGED << counters, outcome >>

\* lines 119-120 with fetch_feed 61-73
fetch_feed ==
  /\ pc = "start"
  /\ \E ans \in FeedAnswers :
       /\ feedAns' = ans
       /\ feedReqs' = feedReqs + 1
       /\ pc' = IF FetchFeedRaises(ans) THEN "raised" ELSE "iter"
  /\ UNCHANGED << config, store, pos, counters, entryVars, outcome, writes, storeOps >>

\* line 121 with iter_entries: the generator is asked for its next pair and
\* the feed has no further entry; lines 135-136
IterEnd ==
  /\ pc = "iter"
  /\ pos = Len(feed)
  /\ pc' = "returned"
  /\ UNCHANGED << config, store, feedAns, feedReqs, pos, counters, entryVars,
                  outcome, writes, storeOps >>

\* iter_entries line 79 on an entry without <id>: AttributeError, which
\* leaves the generator and the for loop; lines 131-133
IterRaise ==
  /\ pc = "iter"
  /\ pos < Len(feed)
  /\ ~HasId(EntryAt(feed, pos + 1))
  /\ pos' = pos + 1
  /\ pc' = "raised"
  /\ UNCHANGED << config, store, feedAns, feedReqs, counters, entryVars,
                  outcome, writes, storeOps >>

\* iter_entries lines 86-88: no usable pdf link, warning, continue
IterDrop ==
  /\ pc = "iter"
  /\ pos < Len(feed)
  /\ HasId(EntryAt(feed, pos + 1))
  /\ NoPdfUrl(FirstPdfHref(EntryAt(feed, pos + 1).links))
  /\ pos' = pos + 1
  /\ outcome' = [outcome EXCEPT ![pos + 1] = "dropped"]
  /\ UNCHANGED << config, store, pc, feedAns, feedReqs, counters, entryVars,
                  writes, storeOps >>

\* iter_entries line 89: yield; line 123 enters download_and_upload
IterYield ==
  /\ pc = "iter"
  /\ pos < Len(feed)
  /\ HasId(EntryAt(feed, pos + 1))
  /\ ~NoPdfUrl(FirstPdfHref(EntryAt(feed, pos + 1).links))
  /\ pos' = pos + 1
  /\ cur' = [id |-> PaperId(EntryAt(feed, pos + 1)),
             url |-> FirstPdfHref(EntryAt(feed, pos + 1).links)]
  /\ headAns' = "none"
  /\ wasPresent' = FALSE
  /\ attempt' = 0
  /\ resp' = NoResp
  /\ checks' = 0 /\ gets' = 0 /\ puts' = 0 /\ ctFails' = 0
  /\ slept' = << >>
  /\ pc' = "check"
  /\ UNCHANGED << config, store, feedAns, feedReqs, counters, outcome, writes, storeOps >>

\* ---------- download_and_upload --------------------------------------------
CurKey == KeyOf(S3_PREFIX, cur.id)

\* what head_object can answer for a key
HeadAnswers(key) ==
  (IF key \in StoreKeys(store) THEN {"200"} ELSE {"404"}) \cup HeadErrors

\* lines 93-96 (and line 98 when the key is absent)
CheckExists ==
  /\ pc = "check"
  /\ \E ans \in HeadAnswers(CurKey) :
       /\ headAns' = ans
       /\ wasPresent' = (CurKey \in StoreKeys(store))
       /\ checks' = checks + 1
       /\ storeOps' = storeOps + 1
       /\ IF AfterCheck(already_in_s3(ans)) = "get"
          THEN /\ attempt' = 1
               /\ pc' = "get"
               /\ UNCHANGED << counters, outcome >>
          ELSE /\ attempt' = attempt
               /\ EntryDone(AfterCheck(already_in_s3(ans)))
  /\ UNCHANGED << config, store, feedAns, feedReqs, pos, cur, resp, gets, puts,
                  ctFails, slept, writes >>

\* a link requests cannot turn into a request
Malformed(url) == url = "bad"

\* line 100: requests.get raises (no connection, timeout, invalid URL)
GetRaises ==
  /\ pc = "get"
  /\ gets' = gets + 1
  /\ storeOps' = storeOps + 1
  /\ resp' = NoResp
  /\ AttemptFailed
  /\ UNCHANGED << config, store, feedAns, feedReqs, pos, cur, headAns, wasPresent,
                  attempt, checks, puts, ctFails, slept, writes >>

\* line 100: requests.get returns a response
GetAnswers ==
  /\ pc = "get"
  /\ ~Malformed(cur.url)
  /\ \E r \in PdfAnswers : resp' = r
  /\ gets' = gets + 1
  /\ storeOps' = storeOps + 1
  /\ pc' = "resp"
  /\ UNCHANGED << config, store, feedAns, feedReqs, pos, counters, cur, headAns,
                  wasPresent, attempt, checks, puts, ctFails, slept, outcome, writes >>

\* lines 101-104: the status and content-type checks
Validate ==
  /\ pc = "resp"
  /\ IF RaiseForStatus(resp.status)
     THEN /\ AttemptFailed
          /\ UNCHANGED ctFails
     ELSE IF ~IsPdfCType(resp.ctype)
     THEN /\ AttemptFailed
          /\ ctFails' = ctFails + 1
     ELSE /\ pc' = "upload"
          /\ UNCHANGED << counters, outcome, ctFails >>
  /\ UNCHANGED << config, store, feedAns, feedReqs, pos, cur, headAns, wasPresent,
                  attempt, resp, checks, gets, puts, slept, writes, storeOps >>

\* lines 106-108: upload_fileobj stores the object
UploadOk ==
  /\ pc = "upload"
  /\ store' = S3Put(store, CurKey, cur.url)
  /\ writes' = writes \cup {[key |-> CurKey, pos |-> pos]}
  /\ puts' = puts + 1
  /\ storeOps' = storeOps + 1
  /\ EntryDone("ok")
  /\ UNCHANGED << config, feedAns, feedReqs, pos, cur, headAns, wasPresent,
                  attempt, resp, checks, gets, ctFails, slept >>

\* line 106: upload_fileobj raises and nothing is stored
UploadRaises ==
  /\ pc = "upload"
  /\ puts' = puts + 1
  /\ storeOps' = storeOps + 1
  /\ AttemptFailed
  /\ UNCHANGED << config, store, feedAns, feedReqs, pos, cur, headAns, wasPresent,
                  attempt, resp, checks, gets, ctFails, slept, writes >>

\* line 113, then the next turn of the loop at line 98
Sleep ==
  /\ pc = "sleep"
  /\ slept' = Append(slept, Backoff(attempt))
  /\ attempt' = attempt + 1
  /\ pc' = "get"
  /\ UNCHANGED << config, store, feedAns, feedReqs, pos, counters, cur, headAns,
                  wasPresent, resp, checks, gets, puts, ctFails, outcome, writes,
                  storeOps >>

\* ---------- the next invocation ---------------------------------------------
Ended == pc \in {"returned", "raised"}

\* lambda_handler is entered again (line 118), on the store as it is
Relaunch ==
  /\ run < MaxRuns
  /\ run' = run + 1
  /\ prev' = [end |-> pc, ok |-> ok, skipped |-> skip, failed |-> fail]
  /\ UNCHANGED << feed, S3_PREFIX, store, other >>
  /\ pc' = "start"
  /\ feedAns' = NoFeedAns
  /\ feedReqs' = 0
  /\ pos' = 0
  /\ ok' = 0 /\ skip' = 0 /\ fail' = 0
  /\ cur' = NoCur
  /\ headAns' = "none"
  /\ wasPresent' = FALSE
  /\ attempt' = 0
  /\ resp' = NoResp
  /\ checks' = 0 /\ gets' = 0 /\ puts' = 0 /\ ctFails' = 0
  /\ slept' = << >>
  /\ outcome' = [i \in 1..Len(feed) |-> "none"]
  /\ writes' = {}
  /\ storeOps' = 0

\* the scheduler invokes lambda_handler again after the run has ended
NextRun ==
  /\ Ended
  /\ Relaunch

Next ==
  \/ fetch_feed
  \/ IterEnd
  \/ IterRaise
  \/ IterDrop
  \/ IterYield
  \/ CheckExists
  \/ GetRaises
  \/ GetAnswers
  \/ Validate
  \/ UploadOk
  \/ UploadRaises
  \/ Sleep
  \/ NextRun

Spec == Init /\ [][Next]_vars

\* a step of the run in progress: an external call returns or fails and the
\* code goes on to its next call
RunStep ==
  \/ fetch_feed
  \/ IterEnd
  \/ IterRaise
  \/ IterDrop
  \/ IterYield
  \/ CheckExists
  \/ GetRaises
  \/ GetAnswers
  \/ Validate
  \/ UploadOk
  \/ UploadRaises
  \/ Sleep

\* the host terminates the invocation (the Lambda timeout of line 18) between
\* two steps of the run, or inside a call that has had no effect yet
Kill ==
  /\ ~Ended
  /\ pc # "killed"
  /\ pc' = "killed"
  /\ UNCHANGED << config, store, feedAns, feedReqs, pos, counters, entryVars,
                  outcome, writes, storeOps >>

\* the host terminates the invocation when upload_fileobj has stored the
\* object (line 106) and the entry has not been counted (lines 107-108, 124-125)
KillAfterUpload ==
  /\ pc = "upload"
  /\ store' = S3Put(store, CurKey, cur.url)
  /\ writes' = writes \cup {[key |-> CurKey, pos |-> pos]}
  /\ puts' = puts + 1
  /\ storeOps' = storeOps + 1
  /\ pc' = "killed"
  /\ UNCHANGED << config, feedAns, feedReqs, pos, counters, cur, headAns, wasPresent,
                  attempt, resp, checks, gets, ctFails, slept, outcome >>

\* the scheduler invokes lambda_handler again after a kill
RerunAfterKill ==
  /\ pc = "killed"
  /\ Relaunch

KillNext ==
  \/ RunStep
  \/ NextRun
  \/ Kill
  \/ KillAfterUpload
  \/ RerunAfterKill

\* runs that the host may terminate at any point
SpecKill == Init /\ [][KillNext]_vars

\* ---------- a second, overlapping invocation ---------------------------------
\* The same handler on the same feed, store and prefix; of its state only what
\* decides its store traffic is kept: where it stands, the entry it handles,
\* the attempt, and the objects it wrote.
mine == << feed, S3_PREFIX, run, prev, pc, feedAns, feedReqs, pos, counters,
           entryVars, outcome, writes, storeOps >>

OtherEntry == EntryAt(feed, other.pos)

\* download_and_upload line 93 in the second invocation
OtherKey == KeyOf(S3_PREFIX, PaperId(OtherEntry))

OtherUrl == FirstPdfHref(OtherEntry.links)

\* lines 109-113 in the second invocation
OtherAttemptFailed ==
  other' = [other EXCEPT !.pc = IF LastAttempt(other.attempt) THEN "iter" ELSE "sleep"]

\* lines 119-120 with fetch_feed 61-73
OtherFetchFeed ==
  /\ other.pc = "idle"
  /\ \E ans \in FeedAnswers :
       other' = [other EXCEPT !.pc = IF FetchFeedRaises(ans) THEN "raised" ELSE "iter"]
  /\ UNCHANGED << mine, store >>

\* line 121 with iter_entries 76-89: the generator's next step
OtherIter ==
  /\ other.pc = "iter"
  /\ IF other.pos = Len(feed)
     THEN other' = [other EXCEPT !.pc = "returned"]
     ELSE IF ~HasId(EntryAt(feed, other.pos + 1))
     THEN other' = [other EXCEPT !.pc = "raised", !.pos = other.pos + 1]
     ELSE IF NoPdfUrl(FirstPdfHref(EntryAt(feed, other.pos + 1).links))
     THEN other' = [other EXCEPT !.pos = other.pos + 1]
     ELSE other' = [other EXCEPT !.pc = "check", !.pos = other.pos + 1,
                                 !.attempt = 0]
  /\ UNCHANGED << mine, store >>

\* lines 93-96 (and line 98 when the key is absent)
OtherCheckExists ==
  /\ other.pc = "check"
  /\ \E ans \in HeadAnswers(OtherKey) :
       IF AfterCheck(already_in_s3(ans)) = "get"
       THEN other' = [other EXCEPT !.pc = "get", !.attempt = 1]
       ELSE other' = [other EXCEPT !.pc = "iter"]
  /\ UNCHANGED << mine, store >>

\* line 100: requests.get raises
OtherGetRaises ==
  /\ other.pc = "get"
  /\ OtherAttemptFailed
  /\ UNCHANGED << mine, store >>

\* lines 100-104: requests.get returns a response, which is then checked
OtherGetAnswers ==
  /\ other.pc = "get"
  /\ ~Malformed(OtherUrl)
  /\ \E r \in PdfAnswers :
       IF RaiseForStatus(r.status) \/ ~IsPdfCType(r.ctype)
       THEN OtherAttemptFailed
       ELSE other' = [other EXCEPT !.pc = "upload"]
  /\ UNCHANGED << mine, store >>

\* lines 106-108: upload_fileobj stores the object
OtherUploadOk ==
  /\ other.pc = "upload"
  /\ store' = S3Put(store, OtherKey, OtherUrl)
  /\ other' = [other EXCEPT !.pc = "iter",
                            !.wrote = @ \cup {[key |-> OtherKey, pos |-> other.pos]}]
  /\ UNCHANGED mine

\* line 106: upload_fileobj raises and nothing is stored
OtherUploadRaises ==
  /\ other.pc = "upload"
  /\ OtherAttemptFailed
  /\ UNCHANGED << mine, store >>

\* line 113, then the next turn of the loop at line 98
OtherSleep ==
  /\ other.pc = "sleep"
  /\ other' = [other EXCEPT !.pc = "get", !.attempt = other.attempt + 1]
  /\ UNCHANGED << mine, store >>

OtherStep ==
  \/ OtherFetchFeed
  \/ OtherIter
  \/ OtherCheckExists
  \/ OtherGetRaises
  \/ OtherGetAnswers
  \/ OtherUploadOk
  \/ OtherUploadRaises
  \/ OtherSleep

OverlapNext ==
  \/ RunStep
  \/ OtherStep

\* both invocations read the one S3_PREFIX of line 30; a non-empty one is taken
OverlapInit ==
  /\ Init
  /\ S3_PREFIX # << >>

\* two invocations of lambda_handler whose steps interleave in any order
SpecOverlap == OverlapInit /\ [][OverlapNext]_vars

\* the steps of a run that wait for nothing outside the process: the
\* generator of lines 76-89 and the checks of lines 101-104
InternalStep ==
  \/ IterEnd
  \/ IterRaise
  \/ IterDrop
  \/ IterYield
  \/ Validate

\* the calls that wait for another party: the feed request, head_object, the
\* PDF GET, upload_fileobj and time.sleep.  TIMEOUT (line 40) bounds the wait
\* for the connection and the silence before each read, not the call, so a
\* call may stay in progress for as long as the other side keeps sending.
ExternalCall ==
  \/ fetch_feed
  \/ CheckExists
  \/ GetRaises
  \/ GetAnswers
  \/ UploadOk
  \/ UploadRaises
  \/ Sleep

FairNext ==
  \/ RunStep
  \/ Kill
  \/ KillAfterUpload

\* one invocation: the single thread goes on through its internal steps; a
\* call may never return, and the host may end the invocation; nothing is
\* assumed about either
FairSpec == Init /\ [][FairNext]_vars /\ WF_vars(InternalStep)

\* ---------- properties -------------------------------------------------------
Positions == 1..Len(feed)

\* a run is inside download_and_upload for the entry at pos
InEntry == pc \in {"check", "get", "resp", "upload", "sleep"}

\* the entry at pos has reached its outcome and nothing was yielded since
CurFinished ==
  /\ pc \in {"iter", "returned"}
  /\ pos >= 1
  /\ outcome[pos] \in {"ok", "skipped", "failed"}

HasPdfLink(entry) == \E i \in 1..Len(entry.links) : entry.links[i].title = "pdf"

HasPdfUrl(entry) == ~NoPdfUrl(FirstPdfHref(entry.links))

NumResolved(f) == Cardinality({i \in 1..Len(f) : Resolved(f[i])})

WritesAt(i) == {w \in writes : w.pos = i}

WritesTo(k) == {w \in writes : w.key = k}

HtmlCType == <<"t", "/", "h", "t", "m", "l">>

\* the content types of CTypes without "pdf" in any case
NonPdfCTypes == { HtmlCType, << >> }

\* the feed request of this run was made and did not give a parsed document
FeedFailed ==
  /\ feedAns # NoFeedAns
  /\ \/ feedAns.kind = "neterr"
     \/ feedAns.status # 200
     \/ ~feedAns.wellformed

\* C1 as stated: an entry whose key is in the store when the existence check
\* runs is never fetched nor written, and its outcome is "skipped".
C1_PresentMeansSkipped ==
  wasPresent =>
    /\ gets = 0
    /\ puts = 0
    /\ WritesAt(pos) = {}
    /\ CurFinished => outcome[pos] = "skipped"

\* C1 amended: an entry whose key is in the store when the existence check
\* runs is never fetched nor written, whatever its link; its outcome is
\* "skipped" when head_object answers, and "failed" when head_object itself
\* fails with a service error.
C1_PresentNeverFetched ==
  wasPresent =>
    /\ gets = 0
    /\ puts = 0
    /\ attempt = 0
    /\ WritesAt(pos) = {}
    /\ CurFinished =>
         outcome[pos] = (IF headAns \in HeadErrors THEN "failed" ELSE "skipped")

\* an entry with a malformed link whose key was present has been skipped
C1_Witness ==
  /\ wasPresent
  /\ CurFinished
  /\ Malformed(cur.url)
  /\ headAns = "200"
  /\ outcome[pos] = "skipped"
  /\ gets = 0

\* C2 as stated: a run that follows a completed run on the same feed and
\* store returns ok = 0 and skipped = the number of feed entries with a pdf
\* link.
C2_SecondRunAllSkipped ==
  (run >= 2 /\ prev.end = "returned" /\ pc = "returned") =>
    /\ ok = 0
    /\ skip = NumResolved(feed)

\* C2 amended: when the first run returned with failed = 0, a second run on
\* the same feed and store, when it returns, has ok = 0, has written nothing,
\* and has skipped every entry iter_entries yields (a first pdf link with a
\* non-empty href) except those whose existence check failed with a service
\* error, which it counts in failed.
C2_SecondRunNoTransfer ==
  (run >= 2 /\ prev.end = "returned" /\ prev.failed = 0) =>
    /\ ok = 0
    /\ gets = 0
    /\ writes = {}
    /\ pc = "returned" =>
         /\ skip + fail = NumResolved(feed)
         /\ fail = Cardinality({i \in Positions : outcome[i] = "failed"})
         /\ \A i \in Positions : outcome[i] = "failed" => Resolved(feed[i])

\* a second run returned after a first run that stored an entry, and it
\* skipped all the resolved entries
C2_Witness ==
  /\ run = 2
  /\ prev.end = "returned"
  /\ prev.failed = 0
  /\ prev.ok >= 1
  /\ pc = "returned"
  /\ skip = NumResolved(feed)
  /\ skip >= 2

\* C3: a success response whose Content-Type has no "pdf" (in any case) never
\* reaches the upload: the attempt fails, it is followed by the backoff when
\* it is not the last attempt, and an entry whose attempts all fail this way
\* is counted failed with no object at its key.
C3_ContentTypeGate ==
  /\ [](/\ pc = "upload" => (resp.status = 200 /\ resp.ctype \notin NonPdfCTypes)
        /\ (CurFinished /\ outcome[pos] = "ok") => resp.ctype \notin NonPdfCTypes
        /\ (CurFinished /\ ctFails = PER_FILE_RETRY) =>
             /\ outcome[pos] = "failed"
             /\ WritesAt(pos) = {}
             /\ KeyOf(S3_PREFIX, cur.id) \notin StoreKeys(store))
  /\ [][ (pc = "resp" /\ resp.status = 200 /\ resp.ctype \in NonPdfCTypes) =>
           /\ store' = store
           /\ writes' = writes
           /\ puts' = puts
           /\ IF attempt < PER_FILE_RETRY
              THEN pc' = "sleep" /\ fail' = fail
              ELSE pc' = "iter" /\ fail' = fail + 1 /\ outcome'[pos] = "failed" ]_vars

\* every attempt of an entry ended on a text/html success response
C3_Witness ==
  /\ CurFinished
  /\ ctFails = PER_FILE_RETRY
  /\ resp = [status |-> 200, ctype |-> HtmlCType]
  /\ outcome[pos] = "failed"

\* C4: when the run has ended and the entry at position k failed, the run has
\* returned (not raised), every later entry with a pdf link has reached an
\* outcome, and failed counts each failed entry once.
C4_EntryIsolation ==
  \A k \in Positions :
    (Ended /\ outcome[k] = "failed") =>
      /\ pc = "returned"
      /\ \A j \in (k + 1)..Len(feed) :
           HasPdfUrl(feed[j]) => outcome[j] # "none"
      /\ fail = Cardinality({i \in Positions : outcome[i] = "failed"})

\* C5: the feed is requested once per run, and a failed feed request makes
\* the run raise before any existence check, PDF fetch or store write.
C5_FeedFatal ==
  /\ feedReqs <= 1
  /\ pc # "start" => feedReqs = 1
  /\ FeedFailed =>
       /\ pc = "raised"
       /\ pos = 0
       /\ storeOps = 0
       /\ checks = 0 /\ gets = 0 /\ puts = 0
       /\ writes = {}
       /\ \A i \in Positions : outcome[i] = "none"

\* the feed endpoint answered 500 on a feed with entries, and the run raised
C5_Witness ==
  /\ feedAns.kind = "http"
  /\ feedAns.status = 500
  /\ Len(feed) >= 1
  /\ pc = "raised"
  /\ feedReqs = 1

\* C6: a run raises only when its feed request failed.
C6_RaisesOnlyOnFeedFailure ==
  pc = "raised" => FeedFailed

\* C7: an existence check that fails with a service error other than "not
\* found" is not repeated, is followed by no fetch and no write, and the entry
\* is counted failed; a fetch is made only after a "not found" answer.
C7_StoreQueryError ==
  /\ checks <= 1
  /\ gets > 0 => headAns = "404"
  /\ puts > 0 => headAns = "404"
  /\ headAns \in HeadErrors =>
       /\ checks = 1
       /\ gets = 0
       /\ puts = 0
       /\ attempt = 0
       /\ slept = << >>
       /\ WritesAt(pos) = {}
       /\ ~InEntry
       /\ CurFinished => outcome[pos] = "failed"

\* an existence check on an absent key failed with a service error
C7_Witness ==
  /\ headAns \in HeadErrors
  /\ ~wasPresent
  /\ CurFinished
  /\ outcome[pos] = "failed"
  /\ fail >= 1

\* the backoffs before attempt a: 2 x 1, ..., 2 x (a - 1)
BackoffsBefore(a) == [i \in 1..(a - 1) |-> 2 * i]

\* C8: at most PER_FILE_RETRY attempts per entry; a failed attempt that is not
\* the last is followed by a sleep of 2 x attempt and the next attempt; a
\* successful attempt ends the entry as "ok"; the failure of the last attempt
\* ends the entry as failed without a sleep.
C8_RetryPolicy ==
  /\ [](/\ attempt <= PER_FILE_RETRY
        /\ gets <= PER_FILE_RETRY
        /\ puts <= gets
        /\ pc = "get" => (gets = attempt - 1 /\ slept = BackoffsBefore(attempt))
        /\ pc \in {"resp", "upload"} => (gets = attempt /\ slept = BackoffsBefore(attempt))
        /\ pc = "sleep" =>
             (attempt < PER_FILE_RETRY /\ gets = attempt /\ slept = BackoffsBefore(attempt))
        /\ (CurFinished /\ attempt >= 1) =>
             (gets = attempt /\ slept = BackoffsBefore(attempt))
        /\ (CurFinished /\ attempt >= 1 /\ outcome[pos] = "failed") =>
             attempt = PER_FILE_RETRY
        /\ (CurFinished /\ outcome[pos] = "ok") => Cardinality(WritesAt(pos)) = 1)
  /\ [][ /\ pc = "sleep" =>
              (pc' = "get" /\ attempt' = attempt + 1
                 /\ slept' = Append(slept, 2 * attempt))
         /\ (pc = "upload" /\ store' # store) =>
              (pc' = "iter" /\ outcome'[pos] = "ok" /\ ok' = ok + 1) ]_vars

\* an entry stored by its second attempt, after one backoff of 2 seconds
C8_Witness ==
  /\ CurFinished
  /\ outcome[pos] = "ok"
  /\ attempt = 2
  /\ slept = << 2 >>

\* C9: once iter_entries has passed an entry without a link titled "pdf", the
\* entry is dropped with no existence check, fetch or write, it is counted
\* nowhere, and by the end of the run every later entry has been reached.
C9_MissingLinkDropped ==
  \A i \in Positions :
    (pos >= i /\ ~HasPdfLink(feed[i])) =>
      /\ outcome[i] = "dropped"
      /\ WritesAt(i) = {}
      /\ ok + skip + fail <= Cardinality({j \in Positions : HasPdfLink(feed[j])})
      /\ Ended => \A j \in (i + 1)..Len(feed) : outcome[j] # "none"

\* C10: no key receives more than one successful write in a run.
C10_OneWritePerKey ==
  \A k \in Keys(S3_PREFIX) : Cardinality(WritesTo(k)) <= 1

\* two entries with the same identifier: the first was written, the second
\* found the key present
C10_Witness ==
  \E i, j \in Positions :
    /\ i < j
    /\ Resolved(feed[i]) /\ Resolved(feed[j])
    /\ PaperId(feed[i]) = PaperId(feed[j])
    /\ outcome[i] = "ok"
    /\ outcome[j] = "skipped"
    /\ Cardinality(WritesTo(KeyOf(S3_PREFIX, PaperId(feed[i])))) = 1

\* C11 as stated: per entry, one existence check and at most one object write
\* request, also when attempts fail and are retried.
C11_OneCheckOneWriteRequest ==
  /\ checks <= 1
  /\ puts <= 1
  /\ CurFinished => checks = 1

\* C11 amended: per resolved entry a run issues exactly one existence check and
\* at most one successful object write; upload_fileobj itself is called once
\* per attempt that passed the status and content-type checks, so up to
\* PER_FILE_RETRY times when a store write fails and is retried.
C11_StoreTraffic ==
  /\ checks <= 1
  /\ (InEntry /\ pc # "check") => checks = 1
  /\ CurFinished => checks = 1
  /\ puts <= PER_FILE_RETRY
  /\ puts <= gets
  /\ \A i \in Positions : Cardinality(WritesAt(i)) <= 1
  /\ CurFinished => Cardinality(WritesAt(pos)) = (IF outcome[pos] = "ok" THEN 1 ELSE 0)
  /\ WritesAt(pos) # {} => puts >= 1

\* an entry stored by its second upload_fileobj call, the first having failed
C11_Witness ==
  /\ CurFinished
  /\ outcome[pos] = "ok"
  /\ checks = 1
  /\ puts = 2
  /\ Cardinality(WritesAt(pos)) = 1

\* C12: the feed is fetched before anything else; the entries are handled one
\* at a time in feed order (every entry before pos has reached its outcome or
\* was dropped, none after pos has been touched, and the pair being handled is
\* the one of feed[pos]); within an entry the existence check precedes every
\* fetch and a fetch precedes every store write.
C12_SequentialFeedOrder ==
  /\ pos >= 1 => (feedReqs = 1 /\ ~FeedFailed)
  /\ pc \notin {"start", "raised"} => feedReqs = 1
  /\ pos <= Len(feed)
  /\ \A i \in Positions :
       /\ i < pos => outcome[i] # "none"
       /\ i > pos => outcome[i] = "none"
       /\ (i = pos /\ InEntry) => outcome[i] = "none"
  /\ InEntry =>
       /\ HasId(feed[pos])
       /\ cur.id = PaperId(feed[pos])
       /\ cur.url = FirstPdfHref(feed[pos].links)
  /\ \A w \in writes : w.pos <= pos /\ (w.pos < pos => outcome[w.pos] = "ok")
  /\ pc = "check" => (checks = 0 /\ gets = 0 /\ puts = 0)
  /\ gets >= 1 => (checks = 1 /\ headAns = "404")
  /\ puts >= 1 => gets >= puts
  /\ pc = "upload" => (gets = attempt /\ puts < gets)

\* the second entry of a feed of two different entries is about to be
\* written, after the first one was stored
C12_Witness ==
  /\ Len(feed) >= 2
  /\ pos = 2
  /\ feed[1] # feed[2]
  /\ outcome[1] = "ok"
  /\ pc = "upload"
  /\ gets >= 1

\* t is the final "/"-separated segment of s
IsFinalSegment(t, s) ==
  \E k \in 0..Len(s) :
    /\ t = SubSeq(s, k + 1, Len(s))
    /\ \A i \in 1..Len(t) : t[i] # "/"
    /\ k = 0 \/ s[k] = "/"

\* prefix + identifier + ".pdf", written out
ExpectedKey(pfx, t) == pfx \o t \o <<".", "p", "d", "f">>

\* C15: the key of the entry being handled, used by the existence check and by
\* the write, is prefix + final segment of the entry's <id> text + ".pdf"
\* ("h/x/a" under prefix "p/" gives "p/a.pdf"), and entries whose ids differ in
\* the final segment have different keys.
C15_KeyDerivation ==
  /\ (InEntry \/ CurFinished) =>
       /\ HasId(feed[pos])
       /\ IsFinalSegment(cur.id, feed[pos].ids[1])
       /\ CurKey = ExpectedKey(S3_PREFIX, cur.id)
       /\ (feed[pos].ids[1] = <<"h", "/", "x", "/", "a">> /\ S3_PREFIX = <<"p", "/">>) =>
            CurKey = <<"p", "/", "a", ".", "p", "d", "f">>
       /\ \A w \in WritesAt(pos) : w.key = ExpectedKey(S3_PREFIX, cur.id)
       /\ headAns = "200" => ExpectedKey(S3_PREFIX, cur.id) \in StoreKeys(store)
       /\ (CurFinished /\ outcome[pos] = "ok") =>
            [key |-> ExpectedKey(S3_PREFIX, cur.id), body |-> cur.url] \in store
  /\ \A i, j \in Positions :
       (HasId(feed[i]) /\ HasId(feed[j])) =>
         \A t, u \in PaperIds :
           (IsFinalSegment(t, feed[i].ids[1]) /\ IsFinalSegment(u, feed[j].ids[1]) /\ t # u) =>
             KeyOf(S3_PREFIX, PaperId(feed[i])) # KeyOf(S3_PREFIX, PaperId(feed[j]))

\* the entry with id "h/x/a" was stored under "p/a.pdf", in a feed that also
\* holds the entry "h/x/b"
C15_Witness ==
  /\ CurFinished
  /\ outcome[pos] = "ok"
  /\ S3_PREFIX = <<"p", "/">>
  /\ feed[pos].ids[1] = <<"h", "/", "x", "/", "a">>
  /\ [key |-> <<"p", "/", "a", ".", "p", "d", "f">>, body |-> cur.url] \in store
  /\ \E j \in Positions : HasId(feed[j]) /\ feed[j].ids[1] = <<"h", "/", "x", "/", "b">>

CountOutcome(o) == Cardinality({i \in Positions : outcome[i] = o})

\* C16: the counters count the outcomes; an entry is "ok" exactly when its
\* write succeeded, "skipped" exactly when head_object found its key, "failed"
\* exactly when head_object failed or every attempt failed; and when the
\* handler returns, every resolved entry has exactly one of the three
\* outcomes, so ok + skipped + failed is the number of resolved entries.
C16_CounterPartition ==
  /\ ok = CountOutcome("ok")
  /\ skip = CountOutcome("skipped")
  /\ fail = CountOutcome("failed")
  /\ ok = Cardinality(writes)
  /\ \A i \in Positions : (outcome[i] = "ok") <=> (WritesAt(i) # {})
  /\ CurFinished =>
       /\ (outcome[pos] = "skipped") <=> (headAns = "200")
       /\ (outcome[pos] = "failed") <=>
            \/ headAns \in HeadErrors
            \/ (headAns = "404" /\ gets = PER_FILE_RETRY /\ WritesAt(pos) = {})
  /\ pc = "returned" =>
       /\ ok + skip + fail = NumResolved(feed)
       /\ \A i \in Positions :
            IF Resolved(feed[i])
            THEN outcome[i] \in {"ok", "skipped", "failed"}
            ELSE outcome[i] = "dropped"

\* a run returned with one entry stored and one entry failed
C16_Witness ==
  /\ pc = "returned"
  /\ ok = 1
  /\ fail = 1
  /\ NumResolved(feed) = 2

\* C17: a step of a run never removes or changes an object of the store, and
\* a step that writes adds one object, at the key of the entry being handled,
\* which was absent at the entry's existence check and is absent until then.
C17_StoreOnlyGrows ==
  [][ /\ \A o \in store : o \in store'
      /\ store' # store =>
           /\ pc = "upload"
           /\ ~wasPresent
           /\ headAns = "404"
           /\ ExpectedKey(S3_PREFIX, cur.id) \notin StoreKeys(store)
           /\ store' = store \cup {[key |-> ExpectedKey(S3_PREFIX, cur.id), body |-> cur.url]}
    ]_vars

\* the store holds an object that was there before the runs and an object
\* this run wrote
C17_Witness ==
  /\ \E o \in store : o.body = "old"
  /\ \E o \in store : o.body # "old" /\ o.key \in {w.key : w \in writes}
  /\ Cardinality(store) = 2

\* C18 as stated: after an entry was handled, an object is at its key iff its
\* outcome is ok or skipped, and a failed entry wrote nothing.
C18_OutcomeIffStored ==
  CurFinished =>
    /\ (CurKey \in StoreKeys(store)) <=> (outcome[pos] \in {"ok", "skipped"})
    /\ outcome[pos] = "failed" => WritesAt(pos) = {}

\* C18 amended: after an entry was handled, an object is at its key iff its
\* outcome is ok or skipped, or it is failed because head_object failed with a
\* service error on a key that was present; a failed entry leaves the store
\* as it was: only the step that ends an entry as "ok" changes the store.
C18_OutcomeMatchesStore ==
  /\ [](CurFinished =>
          /\ (ExpectedKey(S3_PREFIX, cur.id) \in StoreKeys(store)) <=>
               \/ outcome[pos] \in {"ok", "skipped"}
               \/ (outcome[pos] = "failed" /\ headAns \in HeadErrors /\ wasPresent)
          /\ outcome[pos] = "failed" => WritesAt(pos) = {})
  /\ [][ store' # store =>
           (outcome[pos] = "none" /\ outcome'[pos] = "ok" /\ ok' = ok + 1) ]_vars

\* an entry failed after two attempts and no object is at its key
C18_Witness ==
  /\ CurFinished
  /\ outcome[pos] = "failed"
  /\ headAns = "404"
  /\ gets = PER_FILE_RETRY
  /\ ExpectedKey(S3_PREFIX, cur.id) \notin StoreKeys(store)

\* C19: a run makes at most PER_FILE_RETRY fetch attempts per resolved entry,
\* hence a bounded number of external calls; and provided every external call
\* eventually returns or fails, every run that is started ends, by raising or
\* by returning the counts, unless the host ends it first.
C19_Termination ==
  /\ [](/\ attempt <= PER_FILE_RETRY
        /\ gets <= PER_FILE_RETRY
        /\ storeOps <= NumResolved(feed) * (1 + 2 * PER_FILE_RETRY))
  /\ (WF_vars(ExternalCall) => ((pc = "start") ~> (Ended \/ pc = "killed")))

\* a run returned after PER_FILE_RETRY failed attempts on each of two entries
C19_Witness ==
  /\ pc = "returned"
  /\ NumResolved(feed) = 2
  /\ fail = 2
  /\ gets = PER_FILE_RETRY
  /\ storeOps >= 2 * (1 + PER_FILE_RETRY)

\* C13 as stated: in a run that follows a killed run, an entry is skipped
\* exactly when its key is in the store and fetched exactly when it is absent.
C13_RerunFollowsStore ==
  (prev.end = "killed" /\ CurFinished) =>
    /\ (outcome[pos] = "skipped") <=> wasPresent
    /\ (gets >= 1) <=> ~wasPresent

\* C13 amended: a kill removes nothing from the store and no later step
\* removes or changes an object; in the following run, every entry handed to
\* download_and_upload whose existence check answers is skipped exactly when
\* its key is in the store at the check and fetched exactly when it is absent;
\* an entry whose existence check fails with a service error is neither
\* skipped nor fetched and is counted failed.
C13_KillAndRerun ==
  /\ [][\A o \in store : o \in store']_vars
  /\ [](pc = "killed" => \A w \in writes : w.key \in StoreKeys(store))
  /\ []((prev.end = "killed" /\ CurFinished) =>
          IF headAns \in HeadErrors
          THEN outcome[pos] = "failed" /\ gets = 0 /\ WritesAt(pos) = {}
          ELSE /\ (outcome[pos] = "skipped") <=> wasPresent
               /\ (gets >= 1) <=> ~wasPresent
               /\ wasPresent => WritesAt(pos) = {})

\* a run stored its first entry and was killed when it had stored the second
\* one and not yet counted it; the run that followed skipped both
C13_Witness ==
  /\ prev.end = "killed"
  /\ prev.ok = 1
  /\ Len(feed) = 2
  /\ pc = "returned"
  /\ outcome[1] = "skipped"
  /\ outcome[2] = "skipped"
  /\ Cardinality(StoreKeys(store)) = 2
  /\ \A o \in store : o.body # "old"

\* the second invocation is inside the retry loop of download_and_upload
OtherFetching == other.pc \in {"get", "upload", "sleep"}

\* C14: an invocation is inside the retry loop for an entry whose key is in
\* the store only when the key was absent at its own existence check and the
\* overlapping invocation wrote it since; so with one invocation at a time no
\* entry whose key is present is fetched, and two overlapping invocations can
\* both find a key absent and both fetch and write the same entry.
C14_CheckThenWriteNotAtomic ==
  /\ (pc \in {"get", "resp", "upload", "sleep"} /\ CurKey \in StoreKeys(store)) =>
       /\ ~wasPresent
       /\ \E w \in other.wrote : w.key = CurKey
  /\ (OtherFetching /\ OtherKey \in StoreKeys(store)) =>
       \E w \in writes : w.key = OtherKey
  /\ (other.wrote = {} /\ pc \in {"get", "resp", "upload", "sleep"}) =>
       CurKey \notin StoreKeys(store)
  /\ (writes = {} /\ OtherFetching) => OtherKey \notin StoreKeys(store)

\* both invocations have ended and both wrote the object of the same entry
C14_Witness ==
  /\ pc = "returned"
  /\ other.pc = "returned"
  /\ writes \cap other.wrote # {}
  /\ outcome[pos] = "ok"
  /\ ~wasPresent
  /\ [key |-> CurKey, pos |-> pos] \in other.wrote

====
